---- MODULE Spec2Model ----
(***************************************************************************)
(* The `init` command of the tinacms CLI                                   *)
(* (packages/@tinacms/cli/src/cmds/init/index.ts): the four pipeline       *)
(* stages initTina, installDeps, tinaSetup and successMessage, acting on   *)
(* the host project's file system.                                         *)
(*                                                                         *)
(* A path is the sequence of its components below the working directory.   *)
(* A file's text is a sequence of lines, a line a sequence of tokens.      *)
(* package.json is kept in a variable of its own (pkg): it is the one file *)
(* the code parses as structured data.                                     *)
(***************************************************************************)
EXTENDS Integers, Sequences, FiniteSets, TLC

VARIABLES
  fs,        \* the project's files and directories: [Paths -> Entry]
  pkg,       \* the file package.json
  pc,        \* the position of the running process
  run,       \* how many times the command has been started
  useingSrc, \* tinaSetup's local of that name (line 92)
  override,  \* the answer to the prompt in this run: "none", "yes", "no"
  calls,     \* the stages that have invoked their continuation, in order
  out,       \* the messages printed in this run
  written,   \* the paths of the files written in this run
  stageErr,  \* the error swallowed by the stage that ran last
  loggerLevel, \* logger.level: "info" or "fatal"
  haltedAt,  \* where the process crashed or was killed ("" while it runs)
  fs0,       \* the project before the first run
  pkg0,      \* package.json before the first run
  snap       \* the project as the previous run left it

vars == <<fs, pkg, pc, run, useingSrc, override, calls, out, written,
          stageErr, loggerLevel, haltedAt, fs0, pkg0, snap>>

----------------------------------------------------------------------------
(* Bounds of the model *)

MaxLines == 2

MaxMembers == 2

MaxRuns == 2

----------------------------------------------------------------------------
(* Paths (lines 82-89, 110-112, 156-157, 164, 178-179) *)

Root(usingSrc) == IF usingSrc THEN <<"src">> ELSE <<>>

srcPath == <<"src">>

blogContentPath == <<"content", "posts">>

blogPostPath == blogContentPath \o <<"HelloWorld.md">>

otherPostPath == blogContentPath \o <<"Other.md">>

TinaFolder == <<".tina">>

componentFolder == TinaFolder \o <<"components">>

TinaProviderPath == componentFolder \o <<"TinaProvider.js">>

TinaDynamicProvider == componentFolder \o <<"TinaDynamicProvider.js">>

pagesPath(usingSrc) == Root(usingSrc) \o <<"pages">>

appPath(usingSrc) == pagesPath(usingSrc) \o <<"_app.js">>

appPathTS(usingSrc) == pagesPath(usingSrc) \o <<"_app.tsx">>

tinaBlogPagePath(usingSrc) == pagesPath(usingSrc) \o <<"demo", "blog">>

tinaBlogPagePathFile(usingSrc) == tinaBlogPagePath(usingSrc) \o <<"[filename].js">>

adminPath(usingSrc) == pagesPath(usingSrc) \o <<"admin.js">>

adminCollisionPath(usingSrc) == pagesPath(usingSrc) \o <<"admin">>

packagePath == <<"package.json">>

IsPrefix(a, b) == Len(a) <= Len(b) /\ SubSeq(b, 1, Len(a)) = a

Parent(p) == SubSeq(p, 1, Len(p) - 1)

PagePaths(u) ==
  { pagesPath(u), appPath(u), appPathTS(u), pagesPath(u) \o <<"demo">>,
    tinaBlogPagePath(u), tinaBlogPagePathFile(u), adminPath(u),
    adminCollisionPath(u) }

Paths ==
  { srcPath, <<"content">>, blogContentPath, blogPostPath, otherPostPath,
    TinaFolder, componentFolder, TinaProviderPath, TinaDynamicProvider }
  \cup PagePaths(TRUE) \cup PagePaths(FALSE)

----------------------------------------------------------------------------
(* The file system and the fs-extra calls the code makes *)

Absent == [kind |-> "absent", data |-> <<>>]

Dir == [kind |-> "dir", data |-> <<>>]

File(text) == [kind |-> "file", data |-> text]

pathExistsSync(f, p) == f[p].kind # "absent"

mkdirpSync(f, p) ==
  [q \in Paths |-> IF IsPrefix(q, p) /\ f[q].kind = "absent" THEN Dir ELSE f[q]]

writeFileSync(f, p, text) == [f EXCEPT ![p] = File(text)]

outputFileSync(f, p, text) == writeFileSync(mkdirpSync(f, Parent(p)), p, text)

readFileSync(f, p) == f[p].data

----------------------------------------------------------------------------
(* Generated texts (setup-files) *)

blogPost == << <<"blogPost">> >>

TinaProvider == << <<"TinaProvider">> >>

TinaProviderDynamic == << <<"TinaProviderDynamic">> >>

nextPostPage == << <<"nextPostPage">> >>

adminPage == << <<"adminPage">> >>

AppBody(usingSrc) ==
  << <<"import", "Tina", "from", IF usingSrc THEN "../../.tina" ELSE "../.tina">>,
     <<"App">> >>

AppJsContent(usingSrc, extraImports) == extraImports \o AppBody(usingSrc)

----------------------------------------------------------------------------
(* The style-import pattern /^.*import.*\.css("|').*$/gm (line 136) *)

Quotes == {"dq", "sq"}

IsStyleImport(line) ==
  \E i \in DOMAIN line : \E j \in DOMAIN line :
    /\ i < j
    /\ line[i] = "import"
    /\ line[j] = ".css"
    /\ j + 1 \in DOMAIN line
    /\ line[j + 1] \in Quotes

FirstMatchOnly(text) ==
  LET all == SelectSeq(text, IsStyleImport)
  IN  IF all = <<>> THEN <<>> ELSE <<all[1]>>

MentionsImport(line) == \E i \in DOMAIN line : line[i] = "import"

AnyImportLine(text) == SelectSeq(text, MentionsImport)

primaryMatches(text) == SelectSeq(text, IsStyleImport)

appExtension(f, usingSrc) ==
  IF pathExistsSync(f, appPath(usingSrc)) THEN ".js" ELSE ".tsx"

appPathWithExtension(f, usingSrc) ==
  IF appExtension(f, usingSrc) = ".js" THEN appPath(usingSrc) ELSE appPathTS(usingSrc)

----------------------------------------------------------------------------
(* package.json as structured data (lines 164-175).  The text of a JSON    *)
(* object is the sequence of its members as written, a key possibly        *)
(* repeated; a parsed object is a sequence of members with distinct keys,  *)
(* in insertion order.                                                     *)

Indent == 2

StrVal(s) == [t |-> "str", s |-> s, o |-> <<>>]

ObjVal(o) == [t |-> "obj", s |-> "", o |-> o]

NullVal == [t |-> "null", s |-> "", o |-> <<>>]

Missing == [kind |-> "missing", indent |-> 0, members |-> <<>>]

Malformed == [kind |-> "malformed", indent |-> 0, members |-> <<>>]

HasProp(obj, k) == \E i \in DOMAIN obj : obj[i][1] = k

GetProp(obj, k) == obj[CHOOSE i \in DOMAIN obj : obj[i][1] = k][2]

\* obj[k] = v: an existing key keeps its place, a new key goes last
SetProp(obj, k, v) ==
  IF HasProp(obj, k)
  THEN [i \in DOMAIN obj |-> IF obj[i][1] = k THEN <<k, v>> ELSE obj[i]]
  ELSE Append(obj, <<k, v>>)

RECURSIVE AssignAll(_, _)
\* { ...obj, m1, m2, ... }: the members of ms assigned in order
AssignAll(obj, ms) ==
  IF ms = <<>> THEN obj
  ELSE AssignAll(SetProp(obj, ms[1][1], ms[1][2]), Tail(ms))

ParseValue(v) == IF v.t = "obj" THEN ObjVal(AssignAll(<<>>, v.o)) ELSE v

\* JSON.parse of a well-formed object text: a repeated key keeps its last value
JSONparse(file) ==
  AssignAll(<<>>, [i \in DOMAIN file.members |->
                     <<file.members[i][1], ParseValue(file.members[i][2])>>])

\* JSON.stringify(obj, null, 2)
JSONstringify(obj) == [kind |-> "json", indent |-> Indent, members |-> obj]

Truthy(v) == v.t = "obj" \/ (v.t = "str" /\ v.s # "")

\* pack.scripts || {}
oldScripts(pack) ==
  IF HasProp(pack, "scripts") /\ Truthy(GetProp(pack, "scripts"))
  THEN GetProp(pack, "scripts").o
  ELSE <<>>

InjectedScripts ==
  << <<"dev", "tinacms:dev">>, <<"build", "tinacms:build">>,
     <<"generate", "tinacms:generate">> >>

extendNextScripts(scripts) == AssignAll(scripts, InjectedScripts)

newPackWithoutSpread(pack) ==
  <<  <<"scripts", ObjVal(extendNextScripts(oldScripts(pack)))>>  >>

\* { ...pack, scripts: extendNextScripts(oldScripts) }
newPack(pack) ==
  AssignAll(pack, << <<"scripts", ObjVal(extendNextScripts(oldScripts(pack)))>> >>)

----------------------------------------------------------------------------
(* The pipeline *)

Stages == <<"initTina", "installDeps", "tinaSetup", "successMessage">>

\* the continuation handed to a stage starts the stage after it
NextStage(stage) ==
  IF stage = "successMessage" THEN "done"
  ELSE Stages[(CHOOSE i \in DOMAIN Stages : Stages[i] = stage) + 1]

TinaSetupPcs ==
  { "tinaSetup", "contentWrite", "provider", "providerWrite1", "providerWrite2",
    "app", "prompt", "demo", "demoWrite", "manifest", "admin" }

info(level, o, msg) == IF level = "info" THEN o \cup {msg} ELSE o

warn(level, o, msg) == IF level = "info" THEN o \cup {msg} ELSE o

\* Telemetry.submitRecord: a failed submission is swallowed
submitRecord(failed) == "resolved"

execShellCommandRejecting(error) ==
  [settled |-> IF error THEN "rejected" ELSE "resolved", warned |-> error]

\* the promise resolves whatever the subprocess did; an error is console.warn'ed
execShellCommand(error) == [settled |-> "resolved", warned |-> error]

Crash(at) ==
  /\ pc' = "crashed"
  /\ haltedAt' = at

InitTina ==
  /\ pc = "initTina"
  /\ \E failed \in BOOLEAN :
       /\ stageErr' = IF failed THEN "telemetry" ELSE "none"
       /\ IF submitRecord(failed) = "resolved"
          THEN /\ out' = info(loggerLevel, out, "Setting up Tina...")
               /\ calls' = Append(calls, "initTina")
               /\ pc' = NextStage("initTina")
               /\ haltedAt' = haltedAt
          ELSE /\ Crash("initTina")
               /\ UNCHANGED <<out, calls>>
  /\ UNCHANGED <<fs, pkg, run, useingSrc, override, written, loggerLevel,
                 fs0, pkg0, snap>>

InstallDeps ==
  /\ pc = "installDeps"
  /\ \E error \in BOOLEAN :
       LET r == execShellCommand(error)
       IN  /\ stageErr' = IF error THEN "exec" ELSE "none"
           /\ IF r.settled = "resolved"
              THEN /\ out' = IF r.warned THEN out \cup {"console.warn(error)"} ELSE out
                   /\ loggerLevel' = "fatal"
                   /\ calls' = Append(calls, "installDeps")
                   /\ pc' = NextStage("installDeps")
                   /\ haltedAt' = haltedAt
              ELSE /\ Crash("installDeps")
                   /\ UNCHANGED <<out, calls, loggerLevel>>
  /\ UNCHANGED <<fs, pkg, run, useingSrc, override, written, fs0, pkg0, snap>>

----------------------------------------------------------------------------
(* tinaSetup (lines 91-188), one action per file-system operation *)

\* line 92, then step 1 (lines 95-97): the guard and the mkdirp
EnsureSampleContent ==
  /\ pc = "tinaSetup"
  /\ useingSrc' = pathExistsSync(fs, srcPath)
  /\ IF ~pathExistsSync(fs, blogPostPath)
     THEN /\ out' = info(loggerLevel, out, "Adding a content folder...")
          /\ fs' = mkdirpSync(fs, blogContentPath)
          /\ pc' = "contentWrite"
     ELSE /\ pc' = "provider"
          /\ UNCHANGED <<fs, out>>
  /\ stageErr' = "none"
  /\ UNCHANGED <<pkg, run, override, calls, written, loggerLevel, haltedAt,
                 fs0, pkg0, snap>>

\* line 98
WriteSamplePost ==
  /\ pc = "contentWrite"
  /\ fs' = writeFileSync(fs, blogPostPath, blogPost)
  /\ written' = written \cup {blogPostPath}
  /\ pc' = "provider"
  /\ UNCHANGED <<pkg, run, useingSrc, override, calls, out, stageErr,
                 loggerLevel, haltedAt, fs0, pkg0, snap>>

LevelStaysFatal == "fatal"

\* line 107: logger.level = 'info'
LevelAfterProviders == "info"

ProvidersMissingEither(f) ==
  ~pathExistsSync(f, TinaProviderPath) \/ ~pathExistsSync(f, TinaDynamicProvider)

\* the guard of line 102
ProvidersMissing(f) ==
  ~pathExistsSync(f, TinaProviderPath) /\ ~pathExistsSync(f, TinaDynamicProvider)

\* step 2 (lines 102-103): the guard and the mkdirp; line 107 when skipped
EnsureProviders ==
  /\ pc = "provider"
  /\ IF ProvidersMissing(fs)
     THEN /\ fs' = mkdirpSync(fs, componentFolder)
          /\ pc' = "providerWrite1"
          /\ UNCHANGED loggerLevel
     ELSE /\ loggerLevel' = LevelAfterProviders
          /\ pc' = "app"
          /\ UNCHANGED fs
  /\ UNCHANGED <<pkg, run, useingSrc, override, calls, out, written, stageErr,
                 haltedAt, fs0, pkg0, snap>>

\* line 104
WriteTinaProvider ==
  /\ pc = "providerWrite1"
  /\ fs' = writeFileSync(fs, TinaProviderPath, TinaProvider)
  /\ written' = written \cup {TinaProviderPath}
  /\ pc' = "providerWrite2"
  /\ UNCHANGED <<pkg, run, useingSrc, override, calls, out, stageErr,
                 loggerLevel, haltedAt, fs0, pkg0, snap>>

\* lines 105 and 107
WriteTinaDynamicProvider ==
  /\ pc = "providerWrite2"
  /\ fs' = writeFileSync(fs, TinaDynamicProvider, TinaProviderDynamic)
  /\ written' = written \cup {TinaDynamicProvider}
  /\ loggerLevel' = LevelAfterProviders
  /\ pc' = "app"
  /\ UNCHANGED <<pkg, run, useingSrc, override, calls, out, stageErr,
                 haltedAt, fs0, pkg0, snap>>

\* step 3 (lines 110-118): no entry point yet, or the prompt is shown
EnsureAppEntry ==
  /\ pc = "app"
  /\ IF /\ ~pathExistsSync(fs, appPath(useingSrc))
        /\ ~pathExistsSync(fs, appPathTS(useingSrc))
     THEN /\ out' = info(loggerLevel, out, "Adding _app.js ...")
          /\ fs' = writeFileSync(fs, appPath(useingSrc), AppJsContent(useingSrc, <<>>))
          /\ written' = written \cup {appPath(useingSrc)}
          /\ pc' = "demo"
     ELSE /\ out' = out \cup {"prompt: override your _app" \o appExtension(fs, useingSrc)}
          /\ pc' = "prompt"
          /\ UNCHANGED <<fs, written>>
  /\ UNCHANGED <<pkg, run, useingSrc, override, calls, stageErr, loggerLevel,
                 haltedAt, fs0, pkg0, snap>>

\* line 128: the answer decides
Override(res) == res

\* lines 121-151: the user answers the prompt
AnswerPrompt ==
  /\ pc = "prompt"
  /\ \E res \in BOOLEAN :
       /\ override' = IF res THEN "yes" ELSE "no"
       /\ IF Override(res)
          THEN LET fileContent ==
                     IF pathExistsSync(fs, appPath(useingSrc))
                     THEN readFileSync(fs, appPath(useingSrc))
                     ELSE readFileSync(fs, appPathTS(useingSrc))
                   target == appPathWithExtension(fs, useingSrc)
               IN  /\ out' = info(loggerLevel, out,
                                  "Adding _app" \o appExtension(fs, useingSrc))
                   /\ fs' = writeFileSync(fs, target,
                              AppJsContent(useingSrc, primaryMatches(fileContent)))
                   /\ written' = written \cup {target}
          ELSE /\ out' = info(loggerLevel, out, "Heads up: wrap your site in Tina")
               /\ UNCHANGED <<fs, written>>
  /\ pc' = "demo"
  /\ UNCHANGED <<pkg, run, useingSrc, calls, stageErr, loggerLevel, haltedAt,
                 fs0, pkg0, snap>>

\* lines 156-159: the guard and the mkdirp; line 162 when skipped
EnsureDemoPage ==
  /\ pc = "demo"
  /\ IF ~pathExistsSync(fs, tinaBlogPagePathFile(useingSrc))
     THEN /\ fs' = mkdirpSync(fs, tinaBlogPagePath(useingSrc))
          /\ pc' = "demoWrite"
          /\ UNCHANGED out
     ELSE /\ out' = info(loggerLevel, out, "Adding a content folder... done")
          /\ pc' = "manifest"
          /\ UNCHANGED fs
  /\ UNCHANGED <<pkg, run, useingSrc, override, calls, written, stageErr,
                 loggerLevel, haltedAt, fs0, pkg0, snap>>

\* lines 160 and 162
WriteDemoPage ==
  /\ pc = "demoWrite"
  /\ fs' = writeFileSync(fs, tinaBlogPagePathFile(useingSrc), nextPostPage)
  /\ written' = written \cup {tinaBlogPagePathFile(useingSrc)}
  /\ out' = info(loggerLevel, out, "Adding a content folder... done")
  /\ pc' = "manifest"
  /\ UNCHANGED <<pkg, run, useingSrc, override, calls, stageErr, loggerLevel,
                 haltedAt, fs0, pkg0, snap>>

neverThrows(file) == FALSE

\* line 165: readFileSync throws on a missing file, JSON.parse on a malformed one
manifestThrows(file) == file.kind # "json"

\* step 4 (lines 164-175)
UpdateManifest ==
  /\ pc = "manifest"
  /\ IF manifestThrows(pkg)
     THEN /\ Crash("manifest")
          /\ UNCHANGED <<pkg, written>>
     ELSE /\ pkg' = JSONstringify(newPack(JSONparse(pkg)))
          /\ written' = written \cup {packagePath}
          /\ pc' = "admin"
          /\ UNCHANGED haltedAt
  /\ UNCHANGED <<fs, run, useingSrc, override, calls, out, stageErr,
                 loggerLevel, fs0, pkg0, snap>>

AdminGuardOnFile(f, usingSrc) == pathExistsSync(f, adminPath(usingSrc))

\* the guard of line 179
AdminCollision(f, usingSrc) == pathExistsSync(f, adminCollisionPath(usingSrc))

\* lines 178-187
EnsureAdminPage ==
  /\ pc = "admin"
  /\ IF AdminCollision(fs, useingSrc)
     THEN /\ out' = warn(loggerLevel, out, "Unable to add /pages/admin.js")
          /\ UNCHANGED <<fs, written>>
     ELSE /\ fs' = outputFileSync(fs, adminPath(useingSrc), adminPage)
          /\ written' = written \cup {adminPath(useingSrc)}
          /\ UNCHANGED out
  /\ calls' = Append(calls, "tinaSetup")
  /\ pc' = NextStage("tinaSetup")
  /\ UNCHANGED <<pkg, run, useingSrc, override, stageErr, loggerLevel,
                 haltedAt, fs0, pkg0, snap>>

\* lines 190-200
SuccessMessage ==
  /\ pc = "successMessage"
  /\ out' = info(loggerLevel, out, "Tina setup done")
  /\ calls' = Append(calls, "successMessage")
  /\ pc' = NextStage("successMessage")
  /\ UNCHANGED <<fs, pkg, run, useingSrc, override, written, stageErr,
                 loggerLevel, haltedAt, fs0, pkg0, snap>>

----------------------------------------------------------------------------
(* tinaSetup as one function of the project: the files an uninterrupted    *)
(* run that gets past the manifest step leaves, given the answer res to    *)
(* the prompt (lines 91-188)                                               *)

tinaSetupFiles(f, res) ==
  LET u  == pathExistsSync(f, srcPath)
      f1 == IF ~pathExistsSync(f, blogPostPath)
            THEN writeFileSync(mkdirpSync(f, blogContentPath), blogPostPath, blogPost)
            ELSE f
      f2 == IF ProvidersMissing(f1)
            THEN writeFileSync(
                   writeFileSync(mkdirpSync(f1, componentFolder),
                                 TinaProviderPath, TinaProvider),
                   TinaDynamicProvider, TinaProviderDynamic)
            ELSE f1
      f3 == IF ~pathExistsSync(f2, appPath(u)) /\ ~pathExistsSync(f2, appPathTS(u))
            THEN writeFileSync(f2, appPath(u), AppJsContent(u, <<>>))
            ELSE IF Override(res)
                 THEN writeFileSync(f2, appPathWithExtension(f2, u),
                        AppJsContent(u, primaryMatches(
                          IF pathExistsSync(f2, appPath(u))
                          THEN readFileSync(f2, appPath(u))
                          ELSE readFileSync(f2, appPathTS(u)))))
                 ELSE f2
      f4 == IF ~pathExistsSync(f3, tinaBlogPagePathFile(u))
            THEN writeFileSync(mkdirpSync(f3, tinaBlogPagePath(u)),
                               tinaBlogPagePathFile(u), nextPostPage)
            ELSE f3
  IN  IF AdminCollision(f4, u) THEN f4
      ELSE outputFileSync(f4, adminPath(u), adminPage)

\* the step actions, run to the end, compute tinaSetupFiles
StepsAgreeWithHandler ==
  (run = 1 /\ pc \in {"successMessage", "done"})
    => fs = tinaSetupFiles(fs0, override = "yes")

----------------------------------------------------------------------------
(* Interruption and re-run *)

\* the process is killed between two file-system operations of tinaSetup
Interrupt ==
  /\ pc \in TinaSetupPcs
  /\ pc' = "killed"
  /\ haltedAt' = pc
  /\ UNCHANGED <<fs, pkg, run, useingSrc, override, calls, out, written,
                 stageErr, loggerLevel, fs0, pkg0, snap>>

\* the command is started again on the project as the last run left it
Rerun ==
  /\ pc \in {"done", "killed"}
  /\ run < MaxRuns
  /\ run' = run + 1
  /\ snap' = [fs |-> fs, pkg |-> pkg, completed |-> pc = "done",
              override |-> override, haltedAt |-> haltedAt]
  /\ pc' = "initTina"
  /\ useingSrc' = FALSE
  /\ override' = "none"
  /\ calls' = <<>>
  /\ out' = {}
  /\ written' = {}
  /\ stageErr' = "none"
  /\ loggerLevel' = "info"
  /\ haltedAt' = ""
  /\ UNCHANGED <<fs, pkg, fs0, pkg0>>

----------------------------------------------------------------------------
(* Host projects *)

UserText == << <<"x">> >>

UserFile == File(UserText)

Opt(texts) == {Absent} \cup {File(t) : t \in texts}

SeqsUpTo(S, n) == UNION {[1..k -> S] : k \in 0..n}

\* what the choice c puts at path p itself
Explicit(c, p) ==
  CASE p = blogPostPath -> c.hello
    [] p = otherPostPath -> c.other
    [] p = TinaProviderPath -> c.prov
    [] p = TinaDynamicProvider -> c.dyn
    [] p = appPath(c.src) -> c.js
    [] p = appPathTS(c.src) -> c.tsx
    [] p = tinaBlogPagePathFile(c.src) -> c.demo
    [] p = adminCollisionPath(c.src) -> c.admin
    [] p = adminPath(c.src) -> c.adminjs
    [] OTHER -> Absent

\* a project of the assumed layout (pages/ or src/pages/ exists); the
\* directories above an existing entry exist
Project(c) ==
  [p \in Paths |->
     IF Explicit(c, p).kind # "absent" THEN Explicit(c, p)
     ELSE IF \/ \E q \in Paths : q # p /\ IsPrefix(p, q) /\ Explicit(c, q).kind # "absent"
             \/ p = pagesPath(c.src)
             \/ (p = srcPath /\ c.src)
          THEN Dir
          ELSE Absent]

SampleLines ==
  { <<"import", ".css", "sq">>,
    <<"import", "x", ".css", "dq", "x">>,
    <<"x", "import", "x", ".css", "sq">>,
    <<"import", ".css", "x">>,
    <<".css", "sq", "import">>,
    <<"import", "x", "sq">>,
    <<"x">>,
    <<>> }

AppTexts == SeqsUpTo(SampleLines, MaxLines)

SampleApp == << <<"import", "x", ".css", "dq", "x">>, <<"x">> >>

\* scripts objects as written: empty, the unrecognised start, an injected
\* name already in use, a name written twice
ScriptTexts ==
  { <<>>,
    << <<"start", "x">> >>,
    << <<"dev", "x">>, <<"start", "x">> >>,
    << <<"start", "x">>, <<"start", "y">> >>,
    << <<"start", "y">>, <<"dev", "x">>, <<"build", "y">> >> }

TopMembers ==
  { <<"name", StrVal("a")>>, <<"name", StrVal("b")>>, <<"scripts", NullVal>> }
  \cup { <<"scripts", ObjVal(t)>> : t \in ScriptTexts }

Manifests ==
  { [kind |-> "json", indent |-> 4, members |-> m] :
      m \in SeqsUpTo(TopMembers, MaxMembers) }

SampleManifest ==
  [kind |-> "json", indent |-> 4,
   members |-> << <<"name", StrVal("a")>>,
                  <<"scripts", ObjVal(<< <<"start", "x">> >>)>> >>]

InitWith(projects, manifests) ==
  /\ fs \in projects
  /\ pkg \in manifests
  /\ fs0 = fs
  /\ pkg0 = pkg
  /\ snap = [fs |-> fs, pkg |-> pkg, completed |-> FALSE, override |-> "none",
             haltedAt |-> ""]
  /\ pc = "initTina"
  /\ run = 1
  /\ useingSrc = FALSE
  /\ override = "none"
  /\ calls = <<>>
  /\ out = {}
  /\ written = {}
  /\ stageErr = "none"
  /\ loggerLevel = "info"
  /\ haltedAt = ""

\* every combination of pre-existing targets, one sample text each
Projects ==
  { Project([src |-> s, hello |-> h, other |-> o, prov |-> p, dyn |-> d,
             js |-> j, tsx |-> t, demo |-> m, admin |-> a, adminjs |-> b]) :
      s \in BOOLEAN, h \in Opt({UserText}), o \in Opt({UserText}),
      p \in Opt({UserText}), d \in Opt({UserText}),
      j \in Opt({SampleApp}), t \in Opt({SampleApp}), m \in Opt({UserText}),
      a \in {Absent, Dir, UserFile}, b \in Opt({UserText}) }

Init == InitWith(Projects, {Missing, Malformed, SampleManifest})

\* projects that differ in their entry point only
EntryProjects ==
  { Project([src |-> s, hello |-> Absent, other |-> Absent, prov |-> Absent,
             dyn |-> Absent, js |-> e[1], tsx |-> e[2], demo |-> Absent,
             admin |-> Absent, adminjs |-> Absent]) :
      s \in BOOLEAN,
      e \in (Opt(AppTexts) \X {Absent, File(SampleApp)})
            \cup ({Absent} \X Opt(AppTexts)) }

InitEntry == InitWith(EntryProjects, {SampleManifest})

\* projects that differ in their manifest only
FreshProjects ==
  { Project([src |-> s, hello |-> Absent, other |-> Absent, prov |-> Absent,
             dyn |-> Absent, js |-> j, tsx |-> Absent, demo |-> Absent,
             admin |-> Absent, adminjs |-> Absent]) :
      s \in BOOLEAN, j \in Opt({SampleApp}) }

InitManifest == InitWith(FreshProjects, Manifests \cup {Missing, Malformed})

\* projects that differ in what decides the path through the pipeline
LiveProjects ==
  { Project([src |-> s, hello |-> h, other |-> Absent, prov |-> Absent,
             dyn |-> Absent, js |-> j, tsx |-> Absent, demo |-> Absent,
             admin |-> a, adminjs |-> Absent]) :
      s \in BOOLEAN, h \in Opt({UserText}), j \in Opt({SampleApp}),
      a \in {Absent, Dir} }

InitLive == InitWith(LiveProjects, {Missing, SampleManifest})

\* projects for the runs that are interrupted or repeated
RerunProjects ==
  { Project([src |-> s, hello |-> h, other |-> Absent, prov |-> p, dyn |-> p,
             js |-> j, tsx |-> t, demo |-> m, admin |-> a, adminjs |-> b]) :
      s \in BOOLEAN, h \in Opt({UserText}), p \in Opt({UserText}),
      j \in Opt({SampleApp}), t \in Opt({SampleApp}), m \in Opt({UserText}),
      a \in {Absent, Dir}, b \in Opt({UserText}) }

InitRerun == InitWith(RerunProjects, {SampleManifest})

----------------------------------------------------------------------------
(* Specifications *)

Next ==
  \/ InitTina
  \/ InstallDeps
  \/ EnsureSampleContent
  \/ WriteSamplePost
  \/ EnsureProviders
  \/ WriteTinaProvider
  \/ WriteTinaDynamicProvider
  \/ EnsureAppEntry
  \/ AnswerPrompt
  \/ EnsureDemoPage
  \/ WriteDemoPage
  \/ UpdateManifest
  \/ EnsureAdminPage
  \/ SuccessMessage

NextRerun == Next \/ Interrupt \/ Rerun

\* one run of the command
Spec == Init /\ [][Next]_vars

\* one run that is not stopped from outside: the process keeps taking steps
\* and the user answers the prompt
LiveSpec == InitLive /\ [][Next]_vars /\ WF_vars(Next)

SpecEntry == InitEntry /\ [][Next]_vars

SpecManifest == InitManifest /\ [][Next]_vars

SpecRerun == InitRerun /\ [][NextRerun]_vars

----------------------------------------------------------------------------
(* Properties *)

Banner == "Tina setup done"

AdminWarning == "Unable to add /pages/admin.js"

Completed == pc \in {"successMessage", "done"}

\* the layout of the original project
Src0 == pathExistsSync(fs0, srcPath)

AppPaths0 == {appPath(Src0), appPathTS(Src0)}

GuardedTargets ==
  { blogPostPath, otherPostPath, TinaProviderPath, TinaDynamicProvider,
    tinaBlogPagePathFile(Src0) }

\* C1: a user file that exists before the run at content/posts (HelloWorld.md
\* and its neighbours), at a provider path or at the demo listing page is
\* never changed, and neither is _app.js or _app.tsx unless the user has
\* answered yes to the prompt.
C1_UserFilesPreserved ==
  /\ \A p \in GuardedTargets : fs0[p].kind = "file" => fs[p] = fs0[p]
  /\ override # "yes" =>
       \A p \in AppPaths0 : fs0[p].kind = "file" => fs[p] = fs0[p]

C1_Witness ==
  /\ pc = "done"
  /\ override = "no"
  /\ fs0[blogPostPath] = UserFile
  /\ fs0[otherPostPath] = UserFile
  /\ fs0[TinaProviderPath] = UserFile
  /\ fs0[TinaDynamicProvider] = Absent
  /\ fs0[tinaBlogPagePathFile(Src0)] = UserFile
  /\ fs0[appPath(Src0)].kind = "file"
  /\ fs0[appPathTS(Src0)].kind = "file"

\* the entry point the run found: _app.js if it exists, else _app.tsx
ExistingApp0 ==
  IF fs0[appPath(Src0)].kind = "file" THEN appPath(Src0) ELSE appPathTS(Src0)

StyleImportCount(text) == Cardinality({i \in DOMAIN text : IsStyleImport(text[i])})

\* C2: once the user has confirmed, the file at the path of the entry point
\* that existed holds exactly the style-import lines of the old text, in
\* their order, followed by the generated body; the other entry-point path
\* is not touched.
C2_RegeneratedEntry ==
  override = "yes" =>
    LET old == fs0[ExistingApp0].data
        new == fs[ExistingApp0].data
        n   == StyleImportCount(old)
    IN  /\ fs[ExistingApp0].kind = "file"
        /\ Len(new) = n + Len(AppBody(Src0))
        /\ SubSeq(new, n + 1, Len(new)) = AppBody(Src0)
        /\ \E f \in [1..n -> DOMAIN old] :
             /\ \A a, b \in 1..n : a < b => f[a] < f[b]
             /\ \A k \in 1..n : IsStyleImport(old[f[k]]) /\ new[k] = old[f[k]]
        /\ \A p \in AppPaths0 \ {ExistingApp0} : fs[p] = fs0[p]
        /\ written \cap (PagePaths(TRUE) \cup PagePaths(FALSE)) \subseteq
             {ExistingApp0, tinaBlogPagePathFile(Src0), adminPath(Src0)}

C2_Witness ==
  /\ pc = "done"
  /\ override = "yes"
  /\ fs0[appPath(Src0)] = Absent
  /\ fs0[appPathTS(Src0)].kind = "file"
  /\ Len(fs0[appPathTS(Src0)].data) = 2
  /\ StyleImportCount(fs0[appPathTS(Src0)].data) = 2
  /\ fs0[appPathTS(Src0)].data[1] # fs0[appPathTS(Src0)].data[2]

\* C3 as stated: the admin step skips the write only when pages/admin is a
\* directory, and writes admin.js whenever no such directory exists.
C3_AbortOnlyForDirectory ==
  Completed =>
    IF fs0[adminCollisionPath(Src0)].kind = "dir"
    THEN /\ AdminWarning \in out
         /\ adminPath(Src0) \notin written
         /\ fs[adminPath(Src0)] = fs0[adminPath(Src0)]
    ELSE /\ fs[adminPath(Src0)] = File(adminPage)
         /\ adminPath(Src0) \in written

\* C3 amended: the admin step skips the write, warns and still continues
\* whenever anything, directory or file, exists at pages/admin; when nothing
\* exists there admin.js is written, over a pre-existing admin.js too.
C3_AbortForExistingPath ==
  Completed =>
    /\ calls[Len(calls)] \in {"tinaSetup", "successMessage"}
    /\ IF fs0[adminCollisionPath(Src0)].kind # "absent"
       THEN /\ AdminWarning \in out
            /\ adminPath(Src0) \notin written
            /\ fs[adminPath(Src0)] = fs0[adminPath(Src0)]
       ELSE /\ AdminWarning \notin out
            /\ fs[adminPath(Src0)] = File(adminPage)
            /\ adminPath(Src0) \in written

C3_Witness ==
  /\ pc = "done"
  /\ fs0[adminCollisionPath(Src0)] = Absent
  /\ fs0[adminPath(Src0)] = UserFile
  /\ fs[adminPath(Src0)] = File(adminPage)

\* C4: a run that follows a completed run and gets the same answer (or
\* follows a run that was not asked) leaves every file and the manifest as
\* the first run left them; after a declined prompt the prompt is shown
\* again.
C4_SecondRunChangesNothing ==
  (run > 1 /\ snap.completed /\ pc = "done") =>
    /\ (override = snap.override \/ snap.override = "none") =>
         fs = snap.fs /\ pkg = snap.pkg
    /\ snap.override = "no" => override # "none"
    /\ override = "no" =>
         \A p \in AppPaths0 : fs[p] = snap.fs[p]

C4_Witness ==
  /\ run = 2
  /\ snap.completed
  /\ pc = "done"
  /\ override = "yes"
  /\ snap.override = "yes"
  /\ StyleImportCount(fs0[ExistingApp0].data) > 0

FilesOf(f) == {p \in Paths : f[p].kind = "file"}

\* C5 as stated: a run killed inside tinaSetup and then re-run to the end
\* leaves the files, with the contents, of an uninterrupted run on the
\* original project.
C5_RerunRepairsInterruptedRun ==
  (run = 2 /\ snap.haltedAt \in TinaSetupPcs /\ pc = "done") =>
    \E res \in BOOLEAN :
      /\ FilesOf(fs) = FilesOf(tinaSetupFiles(fs0, res))
      /\ \A p \in FilesOf(fs) : fs[p] = tinaSetupFiles(fs0, res)[p]

\* the value the text of an object gives key k: that of its last member k
LastIndex(members, k) ==
  CHOOSE i \in DOMAIN members :
    members[i][1] = k /\ \A j \in DOMAIN members : members[j][1] = k => j <= i

ValueOf(members, k) == members[LastIndex(members, k)][2]

KeysOf(members) == {members[i][1] : i \in DOMAIN members}

InjectedNames == {InjectedScripts[i][1] : i \in DOMAIN InjectedScripts}

\* the scripts mapping a manifest text gives: empty without a scripts object
ScriptsOf(members) ==
  IF "scripts" \in KeysOf(members) /\ ValueOf(members, "scripts").t = "obj"
  THEN ValueOf(members, "scripts").o
  ELSE <<>>

\* C6: the rewritten manifest keeps the value of every top-level key other
\* than scripts and of every script that is not an injected one, holds all
\* injected scripts, and adds no other key or script.
C6_ManifestPreserved ==
  (pc \in {"admin", "successMessage", "done"}) =>
    LET old == pkg0.members
        new == pkg.members
    IN  /\ pkg.kind = "json"
        /\ pkg.indent = Indent
        /\ KeysOf(new) = KeysOf(old) \cup {"scripts"}
        /\ \A k \in KeysOf(old) \ {"scripts"} : ValueOf(new, k) = ValueOf(old, k)
        /\ ValueOf(new, "scripts").t = "obj"
        /\ KeysOf(ScriptsOf(new)) = KeysOf(ScriptsOf(old)) \cup InjectedNames
        /\ \A n \in KeysOf(ScriptsOf(old)) \ InjectedNames :
             ValueOf(ScriptsOf(new), n) = ValueOf(ScriptsOf(old), n)
        /\ \A i \in DOMAIN InjectedScripts :
             ValueOf(ScriptsOf(new), InjectedScripts[i][1]) = InjectedScripts[i][2]

C6_Witness ==
  /\ pc = "done"
  /\ pkg0.members = << <<"name", StrVal("a")>>,
                       <<"scripts", ObjVal(<< <<"dev", "x">>, <<"start", "x">> >>)>> >>
  /\ ValueOf(ScriptsOf(pkg.members), "start") = "x"
  /\ ValueOf(pkg.members, "name") = StrVal("a")

\* C7 as stated: with a src folder every file tinaSetup generates lies
\* under src/, without one none does.
C7_GeneratedPathsFollowSrc ==
  \A p \in written \ {packagePath} :
    IF Src0 THEN p[1] = "src" ELSE p[1] # "src"

IsPrefixOfStages(c) == Len(c) <= Len(Stages) /\ c = SubSeq(Stages, 1, Len(c))

\* C8: the stages invoke their continuations in pipeline order, each once;
\* tinaSetup invokes its own only when all its files and the manifest are
\* written; the banner is printed only by a finished pipeline; and every
\* run ends with the banner printed or with an uncaught error.
C8_PipelineOrder ==
  /\ [](/\ IsPrefixOfStages(calls)
        /\ Len(calls) >= 3 =>
             /\ fs = tinaSetupFiles(fs0, override = "yes")
             /\ pkg = JSONstringify(newPack(JSONparse(pkg0)))
        /\ Banner \in out => pc = "done" /\ calls = Stages)
  /\ (pc = "initTina") ~> (Banner \in out \/ pc = "crashed")

C8_Witness ==
  /\ pc = "done"
  /\ Banner \in out
  /\ override = "no"
  /\ AdminWarning \in out
  /\ written # {}

\* C9: with package.json missing or malformed the run stops at the manifest
\* step: tinaSetup never invokes its continuation, the banner is not
\* printed, admin.js and package.json are not written, and the files the
\* earlier steps wrote are all in place.
C9_ManifestErrorStopsRun ==
  pkg0.kind \in {"missing", "malformed"} =>
    /\ pc \notin {"admin", "successMessage", "done"}
    /\ "tinaSetup" \notin {calls[i] : i \in DOMAIN calls}
    /\ Banner \notin out
    /\ adminPath(Src0) \notin written
    /\ fs[adminPath(Src0)] = fs0[adminPath(Src0)]
    /\ packagePath \notin written
    /\ pkg = pkg0
    /\ pc = "crashed" =>
         /\ haltedAt = "manifest"
         /\ \A p \in written : fs[p].kind = "file"
         /\ fs[blogPostPath].kind = "file"
         /\ fs[tinaBlogPagePathFile(Src0)].kind = "file"
         /\ \E p \in AppPaths0 : fs[p].kind = "file"
         /\ ProvidersMissing(fs0) =>
              fs[TinaProviderPath] = File(TinaProvider)
              /\ fs[TinaDynamicProvider] = File(TinaProviderDynamic)

C9_Witness ==
  /\ pc = "crashed"
  /\ pkg0 = Malformed
  /\ written = {blogPostPath, TinaProviderPath, TinaDynamicProvider,
                appPath(Src0), tinaBlogPagePathFile(Src0)}

\* C10: a failed telemetry submission leaves the pipeline at installDeps,
\* and an error of the install subprocess leaves it at tinaSetup: in both
\* cases the stage has invoked its continuation.
C10_IgnorableErrorsContinue ==
  /\ stageErr = "telemetry" => pc = "installDeps" /\ calls = <<"initTina">>
  /\ stageErr = "exec" => pc = "tinaSetup" /\ calls = <<"initTina", "installDeps">>

C10_Witness ==
  /\ stageErr = "exec"
  /\ pc = "tinaSetup"
  /\ "console.warn(error)" \in out

====
